---- MODULE Spec2Model ----
(***************************************************************************)
(* Concurrent DPLL SAT solver (package dpll).                              *)
(*                                                                         *)
(* src/dpll/dpll.go holds two generations of the search orchestrator:      *)
(*   - lines   1..291: Solve/recursiveSolution sharing a Result cell that  *)
(*     is guarded by a sync.RWMutex, joined by one sync.WaitGroup;         *)
(*   - lines 293..582: Solve/recursiveSolution where every branching node  *)
(*     owns a buffered channel of capacity 2, a WaitGroup and a closer     *)
(*     goroutine.                                                          *)
(* The pure helpers (checkClauseValidity, selectLiteral, isSatisfied,      *)
(* unitPropagate, pureLiteralAssignment, simplifyFormula) are textually    *)
(* the same in both; they are modelled once.                               *)
(*                                                                         *)
(* A search node is named by its path from the root: <<>> is the call of   *)
(* Solve, Append(n, 1) the goroutine that asserts the selected literal,    *)
(* Append(n, 2) the goroutine that asserts its negation.                   *)
(***************************************************************************)
EXTENDS Integers, Sequences, FiniteSets, TLC

(***************************************************************************)
(* Bounds of the input family.                                             *)
(***************************************************************************)
NumVars == 2
MaxClauses == 3
MaxLits == 3
MaxCalls == 2

\* the number of branch tasks one fork runs concurrently: the least bound on
\* live tasks that still lets a node explore its two branches in parallel
TaskBound == 2

\* make(chan Assignment, 2)
ChanCap == 2

(***************************************************************************)
(* Formula model: Literal = nonzero integer, Clause = sequence of          *)
(* literals, Formula = sequence of clauses, Assignment = map from Literal  *)
(* to bool (a function whose domain is the set of keys).                   *)
(***************************************************************************)
Abs(l) == IF l < 0 THEN -l ELSE l

EmptyAssignment == [k \in {} |-> TRUE]

\* m[key] = val
MapPut(m, key, val) ==
    [k \in (DOMAIN m) \cup {key} |-> IF k = key THEN val ELSE m[k]]

\* slices.Contains(c, l)
Contains(c, l) == \E j \in DOMAIN c : c[j] = l

\* slices.Index(c, l): first index of l, 0 when absent (Go: -1)
Index(c, l) ==
    IF Contains(c, l)
    THEN CHOOSE j \in DOMAIN c : c[j] = l /\ \A k \in 1..(j - 1) : c[k] # l
    ELSE 0

\* clone c; if index := slices.Index(c, l); index >= 0 { slices.Delete(c, index, index+1) }
DeleteFirst(c, l) ==
    LET index == Index(c, l)
    IN  IF index = 0 THEN c
        ELSE SubSeq(c, 1, index - 1) \o SubSeq(c, index + 1, Len(c))

checkClauseValidity(formula) ==
    \A i \in DOMAIN formula : Len(formula[i]) # 0

\* a selector that returns the last literal whose variable is not a key
selectLiteralLast(formula, assignment) ==
    LET cand == { p \in UNION { { <<i, j>> : j \in DOMAIN formula[i] } : i \in DOMAIN formula } :
                    Abs(formula[p[1]][p[2]]) \notin DOMAIN assignment }
    IN  IF cand = {}
        THEN [literal |-> 0, err |-> TRUE]
        ELSE LET p == CHOOSE q \in cand :
                        \A r \in cand : q[1] > r[1] \/ (q[1] = r[1] /\ q[2] >= r[2])
             IN  [literal |-> formula[p[1]][p[2]], err |-> FALSE]

\* first literal, in clause order then literal order, whose variable is not a key
selectLiteral(formula, assignment) ==
    LET cand == { p \in UNION { { <<i, j>> : j \in DOMAIN formula[i] } : i \in DOMAIN formula } :
                    Abs(formula[p[1]][p[2]]) \notin DOMAIN assignment }
    IN  IF cand = {}
        THEN [literal |-> 0, err |-> TRUE]
        ELSE LET p == CHOOSE q \in cand :
                        \A r \in cand : q[1] < r[1] \/ (q[1] = r[1] /\ q[2] <= r[2])
             IN  [literal |-> formula[p[1]][p[2]], err |-> FALSE]

isSatisfied(formula, assignment) ==
    \A i \in DOMAIN formula :
        \E j \in DOMAIN formula[i] :
            LET literal == formula[i][j]
            IN  /\ Abs(literal) \in DOMAIN assignment
                /\ \/ literal > 0 /\ assignment[Abs(literal)]
                   \/ literal < 0 /\ ~assignment[Abs(literal)]

\* unit propagation that removes the satisfied clauses but leaves the negated
\* literal in the other clauses
UnitStepKeepNegation(formula, assignment, literal) ==
    [formula    |-> SelectSeq(formula, LAMBDA c : ~Contains(c, literal)),
     assignment |-> MapPut(assignment, Abs(literal), literal > 0)]

\* body of unitPropagate's inner "for _, clause := range unitClauses" for one clause
UnitStep(formula, assignment, literal) ==
    LET filteredFormula == SelectSeq(formula, LAMBDA c : ~Contains(c, literal))
    IN  [formula    |-> [i \in DOMAIN filteredFormula |->
                            DeleteFirst(filteredFormula[i], -literal)],
         assignment |-> MapPut(assignment, Abs(literal), literal > 0)]

RECURSIVE UnitPass(_, _, _)
\* one pass over the unit clauses collected at the start of the pass
UnitPass(formula, assignment, unitClauses) ==
    IF unitClauses = << >>
    THEN [formula |-> formula, assignment |-> assignment]
    ELSE LET r == UnitStep(formula, assignment, Head(unitClauses)[1])
         IN  UnitPass(r.formula, r.assignment, Tail(unitClauses))

\* The value of Op at v, with v computed once (intermediate results below are
\* bound through this operator instead of LET where they are used many times).
Let(v, Op(_)) == CHOOSE y \in { Op(x) : x \in {v} } : TRUE

RECURSIVE unitPropagate(_, _)
unitPropagate(formula, assignment) ==
    LET unitClauses == SelectSeq(formula, LAMBDA c : Len(c) = 1)
    IN  IF unitClauses = << >>
        THEN [formula |-> formula, assignment |-> assignment]
        ELSE Let(UnitPass(formula, assignment, unitClauses),
                 LAMBDA r : unitPropagate(r.formula, r.assignment))

\* allLiteralsSet
AllLiterals(formula) ==
    UNION { { formula[i][j] : j \in DOMAIN formula[i] } : i \in DOMAIN formula }

\* pureLiterals
PureLiterals(formula) ==
    { l \in AllLiterals(formula) : -l \notin AllLiterals(formula) }

\* The loop over pureLiterals.Values() runs in map order; two pure literals
\* never share a variable and the filters commute, so the result is the one
\* below whatever the order.
pureLiteralAssignment(formula, assignment) ==
    LET pure == PureLiterals(formula)
    IN  [formula    |-> SelectSeq(formula, LAMBDA c : \A l \in pure : Index(c, l) = 0),
         assignment |-> [k \in (DOMAIN assignment) \cup { Abs(l) : l \in pure } |->
                            IF \E l \in pure : Abs(l) = k
                            THEN (CHOOSE l \in pure : Abs(l) = k) > 0
                            ELSE assignment[k]]]

simplifyFormula(formula, literal) ==
    LET kept == SelectSeq(formula, LAMBDA c : ~Contains(c, literal))
    IN  [i \in DOMAIN kept |-> DeleteFirst(kept[i], -literal)]

\* newFormula, newAssignment := unitPropagate(...); ... = pureLiteralAssignment(...)
Propagate(formula, assignment) ==
    Let(unitPropagate(formula, assignment),
        LAMBDA u : pureLiteralAssignment(u.formula, u.assignment))

(***************************************************************************)
(* The straight-line part of a search node, from entry to the point where  *)
(* it either finishes or forks.  It is the same text in Solve and in       *)
(* recursiveSolution of both generations; only what is done with the       *)
(* outcome differs.                                                        *)
(*   kind = "unsat" : return without a result                              *)
(*   kind = "sat"   : a satisfying assignment was found (found)            *)
(*   kind = "branch": fork on selectedLiteral over newFormula              *)
(***************************************************************************)
\* the part after propagation: p is (newFormula, newAssignment)
AfterPropagate(formula, p) ==
    IF isSatisfied(p.formula, p.assignment)
    THEN [kind |-> "sat", found |-> p.assignment]
    ELSE IF ~checkClauseValidity(formula) THEN [kind |-> "unsat"]
    ELSE Let(selectLiteral(p.formula, p.assignment),
             LAMBDA s : IF s.err THEN [kind |-> "unsat"]
                        ELSE [kind |-> "branch", newFormula |-> p.formula,
                              newAssignment |-> p.assignment,
                              selectedLiteral |-> s.literal])

\* a node that neither checks for a formula without clauses nor for an empty clause
NodeStepNoTrivialCheck(formula, assignment) ==
    IF isSatisfied(formula, assignment) THEN [kind |-> "sat", found |-> assignment]
    ELSE Let(Propagate(formula, assignment), LAMBDA p : AfterPropagate(formula, p))

NodeStep(formula, assignment) ==
    IF Len(formula) = 0 THEN [kind |-> "unsat"]
    ELSE IF ~checkClauseValidity(formula) THEN [kind |-> "unsat"]
    ELSE IF isSatisfied(formula, assignment) THEN [kind |-> "sat", found |-> assignment]
    ELSE Let(Propagate(formula, assignment), LAMBDA p : AfterPropagate(formula, p))

\* a first goroutine that is handed the node's own formula and assignment
Branch1Unreduced(b) == [formula |-> b.newFormula, assignment |-> b.newAssignment]

\* assignment1 := maps.Clone(newAssignment); assignment1[selectedLiteral] = true
\* simplifiedFormula := simplifyFormula(newFormula, selectedLiteral)
Branch1(b) ==
    [formula    |-> simplifyFormula(b.newFormula, b.selectedLiteral),
     assignment |-> MapPut(b.newAssignment, b.selectedLiteral, TRUE)]

\* assignment2 := maps.Clone(newAssignment); assignment2[selectedLiteral] = false
\* simplifiedFormula := simplifyFormula(newFormula, -selectedLiteral)
Branch2(b) ==
    [formula    |-> simplifyFormula(b.newFormula, -b.selectedLiteral),
     assignment |-> MapPut(b.newAssignment, b.selectedLiteral, FALSE)]

RECURSIVE dpll(_, _)
\* The sequential procedure (src/unnamed/part_001, 149..211): the same
\* straight-line part, then the branch that sets selectedLiteral true and, if
\* that fails, the branch that sets it false; a result of a recursive call is
\* returned as it is.
dpll(formula, assignment) ==
    Let(NodeStep(formula, assignment),
        LAMBDA b :
            CASE b.kind = "unsat" -> [result |-> FALSE, assignment |-> assignment]
              [] b.kind = "sat" -> [result |-> TRUE, assignment |-> b.found]
              [] b.kind = "branch" ->
                    Let(dpll(Branch1(b).formula, Branch1(b).assignment),
                        LAMBDA r : IF r.result THEN r
                                   ELSE dpll(Branch2(b).formula, Branch2(b).assignment)))

(***************************************************************************)
(* Input family: every formula with at most MaxClauses clauses and at most *)
(* MaxLits literal occurrences over the variables 1..NumVars (clauses are  *)
(* sequences, so literals may repeat and a clause may be empty), together  *)
(* with the scenarios of the specification and larger inputs that need two *)
(* levels of branching, conflicting units beside other clauses, or a       *)
(* repeated literal in a clause of a forking node.                         *)
(***************************************************************************)
Lits == { l \in (-NumVars)..NumVars : l # 0 }

RECURSIVE SumLens(_)
SumLens(lens) == IF lens = << >> THEN 0 ELSE Head(lens) + SumLens(Tail(lens))

LenVectors ==
    { lens \in UNION { [1..m -> 0..MaxLits] : m \in 0..MaxClauses } :
        SumLens(lens) <= MaxLits }

\* the clauses of lengths lens cut out of the literal sequence flat
Cut(flat, lens) ==
    [i \in DOMAIN lens |->
        SubSeq(flat, SumLens(SubSeq(lens, 1, i - 1)) + 1, SumLens(SubSeq(lens, 1, i)))]

Scenarios ==
    { << <<1>> >>,
      << <<1>>, <<-1>> >>,
      << <<1, 2>>, <<-1, 2>>, <<1, -2>> >>,
      << <<1, 2>>, <<-1, -2>>, <<1, -2>>, <<-1, 2>> >>,
      << <<-1, 2>>, <<2, 3>>, <<1, -2, -3>> >>,
      << <<1, 2, 3>>, <<-1, -2, -3>>, <<2, -3>>, <<-2, 3>> >>,
      << <<1, 2>>, <<-1, -2>>, <<2, 3>>, <<-2, -3>>, <<1, 3>>, <<-1, -3>> >>,
      << <<1>>, <<-1>>, <<2, 3>>, <<-2, -3>> >>,
      << <<1, 2>>, <<-2, 3>>, <<-3, -2>> >>,
      << <<1, 2>>, <<-1, -1>>, <<-2, 1>> >>,
      << <<1, 2, -2>>, <<-1, 2, -2>> >> }

(***************************************************************************)
(* State.                                                                  *)
(***************************************************************************)
VARIABLES
    F,           \* the formula Solve was called with
    pc,          \* node -> "ready" | "loop" | "publish" | "lockWait" | "wait" | "done"
    formula,     \* node -> the formula argument of the node
    assignment,  \* node -> the assignment argument of the node
    ch,          \* branching node -> contents of the channel it made (ch / subCh)
    closed,      \* branching node -> whether its closer goroutine has closed the channel
    wg,          \* branching node -> counter of its WaitGroup (mutex generation: Root only)
    verdict,     \* the boolean returned by Solve
    result,      \* the Assignment returned by Solve
    calls,       \* number of calls of Solve made so far on F
    prevVerdict, \* the boolean returned by the previous call of Solve on F
    ans,         \* Result{mu, satisfied, assignment} of the mutex generation
    found,       \* node -> assignment the node is about to publish into ans
    readers,     \* nodes holding ans.mu for reading
    writes,      \* number of writes of ans.assignment
    nilAssignment, \* Solve was called with the nil map as its assignment
    fault,       \* "none", or the run-time panic that ended the program
    delivered    \* node -> the assignments the node has sent to its caller's channel
vars == <<F, pc, formula, assignment, ch, closed, wg, verdict, result,
          calls, prevVerdict, ans, found, readers, writes,
          nilAssignment, fault, delivered>>

Root == << >>
Child1(n) == Append(n, 1)
Child2(n) == Append(n, 2)
Parent(n) == SubSeq(n, 1, Len(n) - 1)
Nodes == DOMAIN pc
Tasks == Nodes \ {Root}

\* the state at the call of Solve, apart from the assignment passed to it
InitCall ==
    /\ \/ \E lens \in LenVectors : \E flat \in [1..SumLens(lens) -> Lits] :
            F = Cut(flat, lens)
       \/ F \in Scenarios
    /\ pc = (Root :> "ready")
    /\ formula = (Root :> F)
    /\ ch = << >>
    /\ closed = << >>
    /\ wg = << >>
    /\ verdict = FALSE
    /\ result = EmptyAssignment
    /\ calls = 1
    /\ prevVerdict = "none"
    /\ ans = [satisfied |-> FALSE, assignment |-> EmptyAssignment]
    /\ found = << >>
    /\ readers = {}
    /\ writes = 0
    /\ fault = "none"
    /\ delivered = << >>

\* Solve(formula, make(Assignment)), as main calls it
Init ==
    /\ InitCall
    /\ assignment = (Root :> EmptyAssignment)
    /\ nilAssignment = FALSE

\* Solve(formula, a) with a an empty map of either kind: make(Assignment) or
\* the zero value of the type Assignment (var a Assignment, the nil map)
InitAnyMap ==
    /\ InitCall
    /\ assignment = (Root :> EmptyAssignment)
    /\ nilAssignment \in BOOLEAN

\* the maps from some of the variables 1..NumVars to a truth value
InitialAssignments == UNION { [S -> BOOLEAN] : S \in SUBSET (1..NumVars) }

\* Solve(formula, a) with a any assignment of some of the variables
InitAnyAssignment ==
    /\ InitCall
    /\ \E a \in InitialAssignments : assignment = (Root :> a)
    /\ nilAssignment = FALSE

(***************************************************************************)
(* Channel generation (src/dpll/dpll.go 453..582).                         *)
(*                                                                         *)
(* A step of a goroutine runs from one blocking operation to the next:     *)
(* everything between two channel operations works on values private to   *)
(* the goroutine.  The two "go func()" wrappers compute the child's        *)
(* assignment and formula from captured values the parent never writes     *)
(* again, so they are recorded when the parent forks; the deferred         *)
(* wg.Done() runs when recursiveSolution returns.                          *)
(***************************************************************************)
\* a goroutine that returns without calling wg.Done()
WgDoneSkipped(w) == w

\* a goroutine whose return takes two units off the WaitGroup counter
WgDoneTwice(w) == w - 2

\* wg.Done()
WgDone(w) == w - 1

\* a send "c <- m" can proceed: the buffer has room
CanSend(n) == Len(ch[n]) < ChanCap

\* Run on the nil map (maps.Clone(nil) is nil, reads of it find no key), a
\* node reaches an assignment to a map entry: line 374 when the formula has a
\* unit clause, else line 424 when it has a pure literal, else lines 491/499
\* (557/565) in the goroutines of its fork.
NilMapWrite(f) ==
    /\ Len(f) # 0
    /\ checkClauseValidity(f)
    /\ ~isSatisfied(f, EmptyAssignment)
    /\ \/ \E i \in DOMAIN f : Len(f[i]) = 1
       \/ PureLiterals(f) # {}
       \/ ~selectLiteral(f, EmptyAssignment).err

\* the panic, if any, of a task of parent p that sends (or not) and returns:
\* a send on the closed channel of p, or wg.Done() below zero
TaskFault(p, sends) ==
    IF sends /\ closed[p] THEN "send on closed channel"
    ELSE IF WgDone(wg[p]) < 0 THEN "sync: negative WaitGroup counter"
    ELSE "none"

\* recursiveSolution returns in task n of parent p; the deferred wg.Done() runs
TaskReturn(n, p) ==
    /\ pc' = [pc EXCEPT ![n] = "done"]
    /\ wg' = [wg EXCEPT ![p] = WgDone(@)]

\* var wg; ch := make(chan Assignment, 2); wg.Add(2); go ...; go ...; go closer
ChFork(n, b) ==
    /\ pc' = (Child1(n) :> "ready") @@ (Child2(n) :> "ready") @@ [pc EXCEPT ![n] = "loop"]
    /\ formula' = (Child1(n) :> Branch1(b).formula) @@ (Child2(n) :> Branch2(b).formula) @@ formula
    /\ assignment' = (Child1(n) :> Branch1(b).assignment)
                        @@ (Child2(n) :> Branch2(b).assignment) @@ assignment
    /\ ch' = (n :> << >>) @@ ch
    /\ closed' = (n :> FALSE) @@ closed
    /\ wg' = (n :> 2) @@ wg
    /\ delivered' = (Child1(n) :> << >>) @@ (Child2(n) :> << >>) @@ delivered

\* Solve, lines 453..507: up to the first receive of "for ... := range ch"
ChSolve ==
    /\ fault = "none"
    /\ pc[Root] = "ready"
    /\ IF nilAssignment /\ NilMapWrite(formula[Root])
       THEN /\ fault' = "assignment to entry in nil map"
            /\ UNCHANGED <<pc, formula, assignment, ch, closed, wg, verdict, result,
                           delivered>>
       ELSE /\ fault' = fault
            /\ \E r \in {NodeStep(formula[Root], assignment[Root])} :
                 CASE r.kind = "unsat" ->
                          /\ verdict' = FALSE /\ result' = assignment[Root]
                          /\ pc' = [pc EXCEPT ![Root] = "done"]
                          /\ UNCHANGED <<formula, assignment, ch, closed, wg, delivered>>
                   [] r.kind = "sat" ->
                          /\ verdict' = TRUE /\ result' = r.found
                          /\ pc' = [pc EXCEPT ![Root] = "done"]
                          /\ UNCHANGED <<formula, assignment, ch, closed, wg, delivered>>
                   [] r.kind = "branch" ->
                          /\ ChFork(Root, r)
                          /\ UNCHANGED <<verdict, result>>
    /\ UNCHANGED <<F, calls, prevVerdict, ans, found, readers, writes, nilAssignment>>

\* Solve, lines 509..513: one iteration of the range loop
ChSolveRecv ==
    /\ fault = "none"
    /\ pc[Root] = "loop"
    /\ Len(ch[Root]) > 0
    /\ LET finalAssignment == Head(ch[Root])
       IN  /\ ch' = [ch EXCEPT ![Root] = Tail(@)]
           /\ IF isSatisfied(formula[Root], finalAssignment)
              THEN /\ verdict' = TRUE /\ result' = finalAssignment
                   /\ pc' = [pc EXCEPT ![Root] = "done"]
              ELSE UNCHANGED <<verdict, result, pc>>
    /\ UNCHANGED <<F, formula, assignment, closed, wg, calls, prevVerdict,
                   ans, found, readers, writes, nilAssignment, fault, delivered>>

\* Solve, line 515: the range loop ends on a closed, drained channel
ChSolveLoopEnd ==
    /\ fault = "none"
    /\ pc[Root] = "loop"
    /\ Len(ch[Root]) = 0 /\ closed[Root]
    /\ verdict' = FALSE /\ result' = assignment[Root]
    /\ pc' = [pc EXCEPT ![Root] = "done"]
    /\ UNCHANGED <<F, formula, assignment, ch, closed, wg, calls, prevVerdict,
                   ans, found, readers, writes, nilAssignment, fault, delivered>>

\* go func() { defer wg.Done(); ...; recursiveSolution(...) }, lines 518..574
ChTaskRun(n) ==
    /\ fault = "none"
    /\ n \in Tasks /\ pc[n] = "ready"
    /\ \E r \in {NodeStep(formula[n], assignment[n])}, p \in {Parent(n)} :
           CASE r.kind = "unsat" ->
                    /\ TaskReturn(n, p)
                    /\ fault' = TaskFault(p, FALSE)
                    /\ UNCHANGED <<formula, assignment, ch, closed, delivered>>
             [] r.kind = "sat" ->
                    /\ closed[p] \/ CanSend(p)
                    /\ ch' = [ch EXCEPT ![p] = Append(@, r.found)]
                    /\ delivered' = [delivered EXCEPT ![n] = Append(@, r.found)]
                    /\ TaskReturn(n, p)
                    /\ fault' = TaskFault(p, TRUE)
                    /\ UNCHANGED <<formula, assignment, closed>>
             [] r.kind = "branch" ->
                    /\ ChFork(n, r)
                    /\ fault' = fault
    /\ UNCHANGED <<F, verdict, result, calls, prevVerdict, ans, found, readers, writes,
                   nilAssignment>>

\* recursiveSolution, lines 576..580: one iteration of the range loop
ChTaskRecv(n) ==
    /\ fault = "none"
    /\ n \in Tasks /\ pc[n] = "loop"
    /\ Len(ch[n]) > 0
    /\ LET finalAssignment == Head(ch[n])
           p == Parent(n)
       IN  IF isSatisfied(formula[n], finalAssignment)
           THEN /\ closed[p] \/ CanSend(p)
                /\ ch' = [ch EXCEPT ![n] = Tail(@), ![p] = Append(@, finalAssignment)]
                /\ delivered' = [delivered EXCEPT ![n] = Append(@, finalAssignment)]
                /\ TaskReturn(n, p)
                /\ fault' = TaskFault(p, TRUE)
           ELSE /\ ch' = [ch EXCEPT ![n] = Tail(@)]
                /\ UNCHANGED <<pc, wg, fault, delivered>>
    /\ UNCHANGED <<F, formula, assignment, closed, verdict, result, calls, prevVerdict,
                   ans, found, readers, writes, nilAssignment>>

\* recursiveSolution, line 581..582: the range loop ends, the function returns
ChTaskLoopEnd(n) ==
    /\ fault = "none"
    /\ n \in Tasks /\ pc[n] = "loop"
    /\ Len(ch[n]) = 0 /\ closed[n]
    /\ TaskReturn(n, Parent(n))
    /\ fault' = TaskFault(Parent(n), FALSE)
    /\ UNCHANGED <<F, formula, assignment, ch, closed, verdict, result, calls, prevVerdict,
                   ans, found, readers, writes, nilAssignment, delivered>>

\* go func() { wg.Wait(); close(ch) }
ChClose(n) ==
    /\ fault = "none"
    /\ n \in DOMAIN ch /\ ~closed[n]
    /\ wg[n] = 0
    /\ closed' = [closed EXCEPT ![n] = TRUE]
    /\ UNCHANGED <<F, pc, formula, assignment, ch, wg, verdict, result, calls, prevVerdict,
                   ans, found, readers, writes, nilAssignment, fault, delivered>>

NextCh ==
    \/ ChSolve
    \/ ChSolveRecv
    \/ ChSolveLoopEnd
    \/ \E n \in Nodes : ChTaskRun(n)
    \/ \E n \in Nodes : ChTaskRecv(n)
    \/ \E n \in Nodes : ChTaskLoopEnd(n)
    \/ \E n \in Nodes : ChClose(n)

SpecCh == Init /\ [][NextCh]_vars

\* Solve called with an empty map of either kind
SpecChAnyMap == InitAnyMap /\ [][NextCh]_vars

\* Solve called with an initial assignment that may be non-empty
SpecChAnyAssignment == InitAnyAssignment /\ [][NextCh]_vars

\* goroutines are scheduled fairly by the Go runtime
FairSpecCh == SpecCh /\ WF_vars(NextCh)

(***************************************************************************)
(* Repeated calls: Solve is called again on the same formula once the      *)
(* previous call has returned.  Goroutines the previous call left behind   *)
(* only touch channels of that call and are dropped from the state.        *)
(***************************************************************************)
ChSolveAgain ==
    /\ fault = "none"
    /\ pc[Root] = "done"
    /\ calls < MaxCalls
    /\ calls' = calls + 1
    /\ prevVerdict' = verdict
    /\ pc' = (Root :> "ready")
    /\ formula' = (Root :> F)
    /\ assignment' = (Root :> EmptyAssignment)
    /\ ch' = << >> /\ closed' = << >> /\ wg' = << >>
    /\ verdict' = FALSE /\ result' = EmptyAssignment
    /\ delivered' = << >>
    /\ UNCHANGED <<F, ans, found, readers, writes, nilAssignment, fault>>

NextChRepeat == NextCh \/ ChSolveAgain

SpecChRepeat == Init /\ [][NextChRepeat]_vars

(***************************************************************************)
(* Mutex generation (src/dpll/dpll.go 168..291).                           *)
(*                                                                         *)
(* One WaitGroup (kept at wg[Root]) counts every task; results go into the *)
(* shared Result ans under ans.mu.  sync.RWMutex: Lock() excludes other    *)
(* writers at once and new readers from then on, and returns when the      *)
(* readers that hold the lock have released it.                            *)
(***************************************************************************)
\* ans.mu.RLock() returns: no writer holds or waits for the lock
CanRLock == \A m \in Nodes : pc[m] # "lockWait"

\* a task that does not look at ans.satisfied when it starts
EntryCheckSkipped(a) == FALSE

\* ans.mu.RLock(); if ans.satisfied { return }
EntryCheck(a) == a.satisfied

\* wg.Add(1); go recursiveSolution(...); wg.Add(1); go recursiveSolution(...)
MuFork(n, b) ==
    /\ formula' = (Child1(n) :> Branch1(b).formula) @@ (Child2(n) :> Branch2(b).formula) @@ formula
    /\ assignment' = (Child1(n) :> Branch1(b).assignment)
                        @@ (Child2(n) :> Branch2(b).assignment) @@ assignment

\* Solve, lines 168..215: up to wg.Wait()
MuSolve ==
    /\ fault = "none"
    /\ pc[Root] = "ready"
    /\ IF nilAssignment /\ NilMapWrite(formula[Root])
       THEN /\ fault' = "assignment to entry in nil map"
            /\ UNCHANGED <<pc, formula, assignment, wg, verdict, result>>
       ELSE /\ fault' = fault
            /\ \E r \in {NodeStep(formula[Root], assignment[Root])} :
                 CASE r.kind = "unsat" ->
                          /\ verdict' = FALSE /\ result' = assignment[Root]
                          /\ pc' = [pc EXCEPT ![Root] = "done"]
                          /\ UNCHANGED <<formula, assignment, wg>>
                   [] r.kind = "sat" ->
                          /\ verdict' = TRUE /\ result' = r.found
                          /\ pc' = [pc EXCEPT ![Root] = "done"]
                          /\ UNCHANGED <<formula, assignment, wg>>
                   [] r.kind = "branch" ->
                          /\ MuFork(Root, r)
                          /\ pc' = (Child1(Root) :> "ready") @@ (Child2(Root) :> "ready")
                                      @@ [pc EXCEPT ![Root] = "wait"]
                          /\ wg' = (Root :> 2)
                          /\ UNCHANGED <<verdict, result>>
    /\ UNCHANGED <<F, ch, closed, calls, prevVerdict, ans, found, readers, writes,
                   nilAssignment, delivered>>

\* Solve, lines 217..225: wg.Wait() returns, read ans
MuSolveWait ==
    /\ fault = "none"
    /\ pc[Root] = "wait"
    /\ wg[Root] = 0
    /\ verdict' = ans.satisfied
    /\ result' = IF ans.satisfied THEN ans.assignment ELSE assignment[Root]
    /\ pc' = [pc EXCEPT ![Root] = "done"]
    /\ UNCHANGED <<F, formula, assignment, ch, closed, wg, calls, prevVerdict,
                   ans, found, readers, writes, nilAssignment, fault, delivered>>

\* recursiveSolution, lines 228..291 except the two critical sections that write ans
MuTaskRun(n) ==
    /\ fault = "none"
    /\ n \in Tasks /\ pc[n] = "ready"
    /\ CanRLock
    /\ IF EntryCheck(ans)
       THEN \* return with the read lock held; deferred wg.Done()
            /\ readers' = readers \cup {n}
            /\ pc' = [pc EXCEPT ![n] = "done"]
            /\ wg' = [wg EXCEPT ![Root] = WgDone(@)]
            /\ UNCHANGED <<formula, assignment, found>>
       ELSE \E r \in {NodeStep(formula[n], assignment[n])} :
                CASE r.kind = "unsat" ->
                        /\ pc' = [pc EXCEPT ![n] = "done"]
                        /\ wg' = [wg EXCEPT ![Root] = WgDone(@)]
                        /\ UNCHANGED <<formula, assignment, found, readers>>
                  [] r.kind = "sat" ->
                        /\ pc' = [pc EXCEPT ![n] = "publish"]
                        /\ found' = (n :> r.found) @@ found
                        /\ UNCHANGED <<formula, assignment, wg, readers>>
                  [] r.kind = "branch" ->
                        /\ MuFork(n, r)
                        /\ pc' = (Child1(n) :> "ready") @@ (Child2(n) :> "ready")
                                    @@ [pc EXCEPT ![n] = "done"]
                        /\ wg' = [wg EXCEPT ![Root] = WgDone(@ + 2)]
                        /\ UNCHANGED <<found, readers>>
    /\ UNCHANGED <<F, ch, closed, verdict, result, calls, prevVerdict, ans, writes,
                   nilAssignment, fault, delivered>>

\* ans.mu.Lock() is called: this task is now the writer, waiting for the readers
MuTaskLock(n) ==
    /\ fault = "none"
    /\ n \in Tasks /\ pc[n] = "publish"
    /\ \A m \in Nodes : pc[m] # "lockWait"
    /\ pc' = [pc EXCEPT ![n] = "lockWait"]
    /\ UNCHANGED <<F, formula, assignment, ch, closed, wg, verdict, result, calls,
                   prevVerdict, ans, found, readers, writes, nilAssignment, fault,
                   delivered>>

\* Lock() returns; ans.assignment = ...; ans.satisfied = true; Unlock(); return
MuTaskPublish(n) ==
    /\ fault = "none"
    /\ n \in Tasks /\ pc[n] = "lockWait"
    /\ readers = {}
    /\ ans' = [satisfied |-> TRUE, assignment |-> found[n]]
    /\ writes' = writes + 1
    /\ pc' = [pc EXCEPT ![n] = "done"]
    /\ wg' = [wg EXCEPT ![Root] = WgDone(@)]
    /\ UNCHANGED <<F, formula, assignment, ch, closed, verdict, result, calls,
                   prevVerdict, found, readers, nilAssignment, fault, delivered>>

NextMu ==
    \/ MuSolve
    \/ MuSolveWait
    \/ \E n \in Nodes : MuTaskRun(n)
    \/ \E n \in Nodes : MuTaskLock(n)
    \/ \E n \in Nodes : MuTaskPublish(n)

SpecMu == Init /\ [][NextMu]_vars

FairSpecMu == SpecMu /\ WF_vars(NextMu)

(***************************************************************************)
(* Properties.                                                             *)
(***************************************************************************)
Returned == pc[Root] = "done"

VarsOf(f) == { Abs(l) : l \in AllLiterals(f) }

\* the truth value of literal l under the total valuation v
LitTrue(l, v) == IF l > 0 THEN v[Abs(l)] ELSE ~v[Abs(l)]

\* f has a model: a total valuation of its variables that makes every clause true
Satisfiable(f) ==
    \E v \in [VarsOf(f) -> BOOLEAN] :
        \A i \in DOMAIN f : \E j \in DOMAIN f[i] : LitTrue(f[i][j], v)

\* every clause of f holds a literal whose variable is a key of a with the matching value
SatisfiedBy(f, a) ==
    \A i \in DOMAIN f : \E j \in DOMAIN f[i] :
        /\ Abs(f[i][j]) \in DOMAIN a
        /\ a[Abs(f[i][j])] = (f[i][j] > 0)

\* branch tasks that have been started and have not returned
LiveTasks == { n \in Tasks : pc[n] # "done" }

\* every goroutine of the call has finished: each node returned, each closer closed
AllTerminated ==
    /\ \A n \in Nodes : pc[n] = "done"
    /\ \A n \in DOMAIN closed : closed[n]

\* C1 (SpecCh): when Solve returns (true, A), A satisfies every clause of the
\* formula Solve was called with.
C1_Soundness == (Returned /\ verdict) => SatisfiedBy(F, result)

\* C2 (SpecCh): when the formula has a satisfying total assignment, Solve
\* returns true.  (The formula with no clause at all is left out: Solve
\* reports it unsatisfiable by the documented convention.)
C2_Completeness == (Returned /\ Len(F) > 0 /\ Satisfiable(F)) => verdict

\* C3 (SpecCh): when the formula has no satisfying assignment, Solve returns
\* false.
C3_NegativeCorrectness == (Returned /\ ~Satisfiable(F)) => ~verdict

\* C4 (SpecCh): when Solve returns (true, A), every variable of the formula is
\* a key of A.
C4_Totality == (Returned /\ verdict) => VarsOf(F) \subseteq DOMAIN result

\* C5 (SpecChRepeat): a later call of Solve on the same formula returns the
\* same boolean as the call before it, whatever the interleavings of the two.
C5_VerdictIndependentOfScheduling == (Returned /\ calls > 1) => verdict = prevVerdict

\* C6 (FairSpecCh): under fair scheduling Solve returns and every goroutine of
\* the call (branch tasks and closers) finishes; none stays blocked on a send,
\* a receive or a Wait.
C6_ChannelTermination == <>AllTerminated

\* C6 witness: a call with two levels of forks has completely finished.
C6_Witness ==
    /\ AllTerminated
    /\ \E n \in Nodes : Len(n) = 2

\* C7 (FairSpecMu): under fair scheduling every task returns and Solve's
\* wg.Wait() returns.
C7_MutexTermination == <>(Returned /\ \A n \in Tasks : pc[n] = "done")

\* C8 (SpecMu): the shared Result is written at most once per call of Solve.
C8_PublishOnce == writes <= 1

\* C9 (SpecCh): when Solve has returned, every branch task it spawned, at any
\* depth, has terminated.
C9_NoTaskLeaked == Returned => LiveTasks = {}

\* C10 (SpecCh): the number of simultaneously live branch tasks never exceeds
\* the bound TaskBound; a node that decides to branch when the bound is
\* reached does not spawn.
C10_BoundedConcurrency == Cardinality(LiveTasks) <= TaskBound

\* C11 (SpecChAnyMap): no execution of Solve, called with an empty assignment
\* of either kind, ends in a panic (send on a closed channel, write to a nil
\* map, negative WaitGroup counter).
C11_NoFault == fault = "none"

\* the node has run its straight-line part
Started(n) == pc[n] # "ready"

\* the node has forked two child tasks
Branched(n) == Child1(n) \in Nodes

\* the incoming formula has zero clauses or contains an empty clause
Trivial(f) == Len(f) = 0 \/ ~checkClauseValidity(f)

\* C12 (SpecCh): a node whose incoming formula has zero clauses or contains an
\* empty clause reports UNSAT immediately: it has returned, has no child task
\* and has delivered nothing; at the root Solve returns (false, a) with a the
\* assignment it was given.
C12_EmptyFormulaConvention ==
    \A n \in Nodes :
        (Started(n) /\ Trivial(formula[n])) =>
            /\ pc[n] = "done"
            /\ ~Branched(n)
            /\ n # Root => delivered[n] = << >>
            /\ n = Root => (~verdict /\ result = assignment[Root])

\* C12 witness: a spawned sub-search that received a formula without clauses
\* has run, and so has its sibling.
C12_Witness ==
    \E n \in Nodes :
        /\ Branched(n)
        /\ Started(Child1(n)) /\ Started(Child2(n))
        /\ Len(formula[Child1(n)]) = 0

\* f contains a single-literal clause [L] and a single-literal clause [-L]
ConflictingUnits(f) ==
    \E i, j \in DOMAIN f :
        Len(f[i]) = 1 /\ Len(f[j]) = 1 /\ f[i][1] = -f[j][1]

\* C13 (SpecCh): when the formula contains both [L] and [-L], unit propagation
\* leaves an empty clause in the reduced formula and Solve returns false.
C13_ConflictingUnits ==
    ConflictingUnits(F) =>
        /\ ~checkClauseValidity(unitPropagate(formula[Root], assignment[Root]).formula)
        /\ Returned => ~verdict

\* C13 witness: Solve has returned on a formula with conflicting unit clauses
\* and further clauses, after a fork whose two tasks have run.
C13_Witness ==
    /\ ConflictingUnits(F) /\ Len(F) > 2
    /\ Returned /\ Branched(Root)
    /\ LiveTasks = {}

\* the node has returned without a result: Solve returned false, a task
\* returned having sent nothing to its caller
ReportedUnsat(n) ==
    /\ pc[n] = "done"
    /\ IF n = Root THEN ~verdict ELSE delivered[n] = << >>

\* the node has returned a result: Solve returned (true, a), a task sent a
ReportedSat(n, a) ==
    /\ pc[n] = "done"
    /\ IF n = Root THEN verdict /\ result = a ELSE delivered[n] = <<a>>

\* the assignments the children of n have delivered on the channel of n
ChildResults(n) ==
    UNION { { delivered[c][i] : i \in DOMAIN delivered[c] } : c \in {Child1(n), Child2(n)} }

\* C14 (SpecCh): a node that has branched reports UNSAT only when both of its
\* child sub-searches have terminated and neither has delivered a result.
C14_JoinUnsatOnlyAfterBoth ==
    \A n \in Nodes :
        (Branched(n) /\ ReportedUnsat(n)) =>
            /\ pc[Child1(n)] = "done" /\ pc[Child2(n)] = "done"
            /\ delivered[Child1(n)] = << >> /\ delivered[Child2(n)] = << >>

\* C15 (SpecCh): when a child sub-search of a node has delivered an assignment
\* on the node's channel, the node itself reports SAT, with an assignment
\* delivered by one of its children.
C15_JoinPropagatesSat ==
    \A n \in Nodes :
        (Branched(n) /\ pc[n] = "done" /\ ChildResults(n) # {}) =>
            \E a \in ChildResults(n) : ReportedSat(n, a)

\* the part of C14 about order alone: a branched node reports UNSAT only when
\* both of its child sub-searches have terminated
JoinWaitsForBoth ==
    \A n \in Nodes :
        (Branched(n) /\ ReportedUnsat(n)) =>
            pc[Child1(n)] = "done" /\ pc[Child2(n)] = "done"

\* C16 (SpecCh): when a node branches on the selected literal L, its first
\* child gets the post-propagation assignment extended with |L| -> (L > 0) and
\* its second child gets it extended with |L| -> (L < 0), for L of either sign.
C16_BranchAssignmentFixesVariable ==
    \A n \in Nodes :
        Branched(n) =>
            \E b \in {NodeStep(formula[n], assignment[n])} :
                /\ b.kind = "branch"
                /\ assignment[Child1(n)] =
                       MapPut(b.newAssignment, Abs(b.selectedLiteral), b.selectedLiteral > 0)
                /\ assignment[Child2(n)] =
                       MapPut(b.newAssignment, Abs(b.selectedLiteral), b.selectedLiteral < 0)

\* every Assignment present in the state: held by a node, in flight on a
\* channel, about to be published, stored in the result cell, returned by Solve
HeldAssignments ==
    { assignment[n] : n \in Nodes }
        \cup UNION { { ch[n][i] : i \in DOMAIN ch[n] } : n \in DOMAIN ch }
        \cup { found[n] : n \in DOMAIN found }
        \cup { ans.assignment, result }

\* C17 (SpecCh): every key of every Assignment in the state is a positive
\* integer.
C17_AssignmentKeysPositive ==
    \A a \in HeldAssignments : \A k \in DOMAIN a : k > 0

\* C18 (SpecMu): a task that starts when satisfied is already true in the
\* shared Result returns at once: the step that takes it out of "ready" ends
\* it, spawns no task, leaves the Result unwritten and publishes nothing.
C18_CooperativeCancellation ==
    [][\A n \in Tasks :
          (pc[n] = "ready" /\ ans.satisfied /\ pc'[n] # "ready") =>
              /\ pc'[n] = "done"
              /\ DOMAIN pc' = DOMAIN pc
              /\ ans' = ans /\ writes' = writes
              /\ found' = found]_vars

\* C18 witness: a task returned at its entry check after another task had
\* published a satisfying assignment.
C18_Witness ==
    /\ ans.satisfied /\ writes > 0
    /\ \E n \in readers : pc[n] = "done"

\* the node has run its propagation step: it started and passed the checks
\* that precede unitPropagate
Propagated(n) ==
    /\ Started(n)
    /\ ~Trivial(formula[n])
    /\ ~isSatisfied(formula[n], assignment[n])

\* C19 (SpecCh): a node whose propagation step produced a formula with an
\* empty clause reports UNSAT at once: it does not fork.
C19_ContradictionStopsNode ==
    \A n \in Nodes :
        (Propagated(n) /\
         ~checkClauseValidity(Propagate(formula[n], assignment[n]).formula)) =>
            ~Branched(n)

\* no single-literal clause and no pure literal
Fixpoint(f) ==
    /\ \A i \in DOMAIN f : Len(f[i]) # 1
    /\ PureLiterals(f) = {}

\* C20 (SpecCh): the formula a node obtains from unitPropagate followed by
\* pureLiteralAssignment has no single-literal clause and no pure literal.
C20_PropagationFixpoint ==
    \A n \in Nodes :
        Propagated(n) => Fixpoint(Propagate(formula[n], assignment[n]).formula)

\* b maps every key of a, to the value a gives it
Extends(b, a) == \A k \in DOMAIN a : k \in DOMAIN b /\ b[k] = a[k]

\* C21 (SpecChAnyAssignment): the assignment a node's propagation step
\* produces, and the assignment handed to each of its children, agree with the
\* node's incoming assignment on every key of the incoming assignment.
C21_AssignmentsOnlyGrow ==
    \A n \in Nodes :
        /\ Propagated(n) =>
               Extends(Propagate(formula[n], assignment[n]).assignment, assignment[n])
        /\ Branched(n) =>
               /\ Extends(assignment[Child1(n)], assignment[n])
               /\ Extends(assignment[Child2(n)], assignment[n])

\* clause c without any occurrence of literal l
RemoveAll(c, l) == SelectSeq(c, LAMBDA x : x # l)

\* the clauses of f that do not contain l, in order, each without any -l
Reduce(f, l) ==
    LET kept == SelectSeq(f, LAMBDA c : ~Contains(c, l))
    IN  [i \in DOMAIN kept |-> RemoveAll(kept[i], -l)]

\* C22 (SpecCh): the formulas a branching node computes with simplifyFormula
\* for its selected literal L and for -L are exactly the clauses of its
\* propagated formula without the literal, each with every occurrence of the
\* negated literal removed.
C22_ReduceRule ==
    \A n \in Nodes :
        Branched(n) =>
            \E b \in {NodeStep(formula[n], assignment[n])} :
                /\ formula[Child1(n)] = Reduce(b.newFormula, b.selectedLiteral)
                /\ formula[Child2(n)] = Reduce(b.newFormula, -b.selectedLiteral)

(***************************************************************************)
(* The helpers once more, at the level of Go's memory.  A Clause is a      *)
(* slice: a header (backing array a, length n) over an array of literals;  *)
(* an Assignment is a reference to a map.  Memory is the sequence arr of   *)
(* the arrays and the sequence map of the maps allocated so far; an        *)
(* allocation appends.  A Formula is kept as the sequence of its clause    *)
(* headers: the helpers build every clause list by append onto a new nil   *)
(* slice or by slices.Clone and never store into a clause list they were   *)
(* given.                                                                  *)
(***************************************************************************)
\* the literals a clause header denotes
Content(M, c) == SubSeq(M.arr[c.a], 1, c.n)

\* the formula a sequence of clause headers denotes
FormulaOf(M, f) == [i \in DOMAIN f |-> Content(M, f[i])]

\* memory holding exactly the formula f and the assignment m, as a caller
\* passes them: clause i in array i, the map at map reference 1
Memory(f, m) == [arr |-> f, map |-> <<m>>]

\* the headers of the clauses of f in Memory(f, m)
Headers(f) == [i \in DOMAIN f |-> [a |-> i, n |-> Len(f[i])]]

\* slices.Clone(c): a new array with the content of c
slicesClone(M, c) ==
    [M |-> [M EXCEPT !.arr = Append(@, Content(M, c))],
     c |-> [a |-> Len(M.arr) + 1, n |-> c.n]]

\* slices.Delete(c, index, index+1): shifts the tail of c left inside its
\* array, clears the vacated element, returns the shorter header
slicesDelete(M, c, index) ==
    [M |-> [M EXCEPT !.arr[c.a] =
                SubSeq(@, 1, index - 1) \o SubSeq(@, index + 1, c.n) \o <<0>>
                    \o SubSeq(@, c.n + 1, Len(@))],
     c |-> [a |-> c.a, n |-> c.n - 1]]

\* maps.Clone(m): a new map with the entries of m
mapsClone(M, m) ==
    [M |-> [M EXCEPT !.map = Append(@, @[m])], m |-> Len(M.map) + 1]

\* m[key] = val, in place
mapStore(M, m, key, val) == [M EXCEPT !.map[m] = MapPut(@, key, val)]

\* a deletion made directly in the clause it was given, without the clone
memDeleteFirstInPlace(M, c, l) ==
    LET index == Index(Content(M, c), l)
    IN  IF index = 0 THEN [M |-> M, c |-> c] ELSE slicesDelete(M, c, index)

\* updatedClause := slices.Clone(c); if index := slices.Index(updatedClause, l);
\* index >= 0 { updatedClause = slices.Delete(updatedClause, index, index+1) }
memDeleteFirst(M, c, l) ==
    LET cl == slicesClone(M, c)
        index == Index(Content(M, c), l)
    IN  IF index = 0 THEN cl ELSE slicesDelete(cl.M, cl.c, index)

RECURSIVE memDeleteEach(_, _, _)
\* for _, c := range f { ...; simplifiedFormula = append(simplifiedFormula, updatedClause) }
memDeleteEach(M, f, l) ==
    IF f = << >> THEN [M |-> M, f |-> << >>]
    ELSE LET h == memDeleteFirst(M, Head(f), l)
             t == memDeleteEach(h.M, Tail(f), l)
         IN  [M |-> t.M, f |-> <<h.c>> \o t.f]

\* unitPropagate, body of the loop over unitClauses; m is updatedAssignment
memUnitStep(M, f, m, literal) ==
    LET M1 == mapStore(M, m, Abs(literal), literal > 0)
        filteredFormula == SelectSeq(f, LAMBDA c : ~Contains(Content(M1, c), literal))
        r == memDeleteEach(M1, filteredFormula, -literal)
    IN  [M |-> r.M, f |-> r.f, m |-> m]

RECURSIVE memUnitPass(_, _, _, _)
\* unitPropagate, the loop over unitClauses
memUnitPass(M, f, m, unitClauses) ==
    IF unitClauses = << >> THEN [M |-> M, f |-> f, m |-> m]
    ELSE LET r == memUnitStep(M, f, m, Content(M, Head(unitClauses))[1])
         IN  memUnitPass(r.M, r.f, r.m, Tail(unitClauses))

RECURSIVE memUnitLoop(_, _, _)
\* unitPropagate, the outer for loop
memUnitLoop(M, f, m) ==
    LET unitClauses == SelectSeq(f, LAMBDA c : c.n = 1)
    IN  IF unitClauses = << >> THEN [M |-> M, f |-> f, m |-> m]
        ELSE LET r == memUnitPass(M, f, m, unitClauses)
             IN  memUnitLoop(r.M, r.f, r.m)

\* unitPropagate: updatedAssignment := maps.Clone(assignment), then the loop
memUnitPropagate(M, f, m) ==
    LET mc == mapsClone(M, m)
    IN  memUnitLoop(mc.M, f, mc.m)

\* pureLiteralAssignment: the map is cloned and the clone written; the clause
\* list is filtered, no clause is written
memPureLiteralAssignment(M, f, m) ==
    LET mc == mapsClone(M, m)
        v == pureLiteralAssignment(FormulaOf(M, f), M.map[m])
        pure == PureLiterals(FormulaOf(M, f))
    IN  [M |-> [mc.M EXCEPT !.map[mc.m] = v.assignment],
         f |-> SelectSeq(f, LAMBDA c : \A l \in pure : Index(Content(M, c), l) = 0),
         m |-> mc.m]

\* simplifyFormula
memSimplifyFormula(M, f, literal) ==
    memDeleteEach(M, SelectSeq(f, LAMBDA c : ~Contains(Content(M, c), literal)), -literal)

\* a := maps.Clone(newAssignment); a[key] = val; simplifyFormula(newFormula, literal)
memBranch(M, f, m, key, val, literal) ==
    LET mc == mapsClone(M, m)
        s == memSimplifyFormula(mapStore(mc.M, mc.m, key, val), f, literal)
    IN  [M |-> s.M, f |-> s.f, m |-> mc.m]

\* The memory of a node that runs on the formula f and the assignment a and
\* forks on the literal l: M0 at entry, u after unitPropagate, p after
\* pureLiteralAssignment, b1 after the first goroutine has built its
\* arguments, b2 after the second has.
NodeMemory(f, a, l) ==
    LET M0 == Memory(f, a)
        u  == memUnitPropagate(M0, Headers(f), 1)
        p  == memPureLiteralAssignment(u.M, u.f, u.m)
        b1 == memBranch(p.M, p.f, p.m, l, TRUE, l)
        b2 == memBranch(b1.M, p.f, p.m, l, FALSE, -l)
    IN  [M0 |-> M0, u |-> u, p |-> p, b1 |-> b1, b2 |-> b2]

\* every array and map of memory M is in memory N with the same content
Untouched(M, N) ==
    /\ \A i \in DOMAIN M.arr : N.arr[i] = M.arr[i]
    /\ \A i \in DOMAIN M.map : N.map[i] = M.map[i]

\* the memory-level run of a node computes the values the node's step uses
SameValues(x, b) ==
    /\ FormulaOf(x.p.M, x.p.f) = b.newFormula
    /\ x.p.M.map[x.p.m] = b.newAssignment
    /\ FormulaOf(x.b2.M, x.b1.f) = Branch1(b).formula
    /\ x.b2.M.map[x.b1.m] = Branch1(b).assignment
    /\ FormulaOf(x.b2.M, x.b2.f) = Branch2(b).formula
    /\ x.b2.M.map[x.b2.m] = Branch2(b).assignment

\* C23 (SpecCh): in a node that forks, unitPropagate,
\* pureLiteralAssignment and the two goroutines' maps.Clone / simplifyFormula
\* each leave every array and map that existed before them as it was: the
\* formula and assignment the node was given, the propagated ones both
\* children read, and what the sibling built.  Every write goes to an array
\* or map allocated by the same call, so no task writes what another can reach.
C23_NoMutationIsolation ==
    \A n \in Nodes :
        Branched(n) =>
            \E b \in {NodeStep(formula[n], assignment[n])} :
                \E x \in {NodeMemory(formula[n], assignment[n], b.selectedLiteral)} :
                    /\ SameValues(x, b)
                    /\ Untouched(x.M0, x.u.M)
                    /\ Untouched(x.u.M, x.p.M)
                    /\ Untouched(x.p.M, x.b1.M)
                    /\ Untouched(x.b1.M, x.b2.M)

\* C23 witness: a node has forked after a propagation step that assigned a
\* variable, and a literal was deleted from a cloned clause on the way.
C23_Witness ==
    \E n \in Nodes :
        /\ Branched(n)
        /\ \E b \in {NodeStep(formula[n], assignment[n])} :
               /\ DOMAIN b.newAssignment # DOMAIN assignment[n]
               /\ \E i \in DOMAIN formula[Child1(n)] :
                      \A j \in DOMAIN b.newFormula :
                          formula[Child1(n)][i] # b.newFormula[j]

\* the variable a forking node branches on
SelectedVar(n) == Abs(NodeStep(formula[n], assignment[n]).selectedLiteral)

\* the nodes on the path from the root to n, n excluded
Ancestors(n) == { SubSeq(n, 1, k) : k \in 0..(Len(n) - 1) }

\* C24 (SpecCh): a forking node branches on a variable none of its ancestors
\* branched on, and no node lies deeper than the number of distinct variables
\* of the input formula.
C24_DepthBoundedByVariables ==
    \A n \in Nodes :
        /\ Branched(n) => \A m \in Ancestors(n) : SelectedVar(m) # SelectedVar(n)
        /\ Len(n) <= Cardinality(VarsOf(F))

\* C24 witness: the bound is attained with two nested branching levels.
C24_Witness ==
    \E n \in Nodes :
        /\ Len(n) = 2 /\ Cardinality(VarsOf(F)) = 2
        /\ Started(n)

RECURSIVE Flatten(_)
\* the literals of f in scanning order
Flatten(f) == IF f = << >> THEN << >> ELSE Head(f) \o Flatten(Tail(f))

\* the node has called selectLiteral: propagation did not satisfy the formula
Selecting(n) ==
    /\ Propagated(n)
    /\ \E p \in {Propagate(formula[n], assignment[n])} : ~isSatisfied(p.formula, p.assignment)

\* C25 (SpecChAnyAssignment): selectLiteral, as a node calls it on its
\* propagated formula and assignment, returns the first literal in scanning
\* order whose variable is not a key; it fails exactly when every literal's
\* variable is a key, and the node then reports UNSAT without forking.
C25_DeterministicSelectLiteral ==
    \A n \in Nodes :
        Selecting(n) =>
            \E p \in {Propagate(formula[n], assignment[n])} :
                LET s == selectLiteral(p.formula, p.assignment)
                    flat == Flatten(p.formula)
                    Assigned(k) == Abs(flat[k]) \in DOMAIN p.assignment
                IN  /\ s.err <=> \A k \in DOMAIN flat : Assigned(k)
                    /\ ~s.err =>
                          \E k \in DOMAIN flat :
                              /\ flat[k] = s.literal
                              /\ ~Assigned(k)
                              /\ \A j \in 1..(k - 1) : Assigned(j)
                    /\ s.err => (~Branched(n) /\ ReportedUnsat(n))

\* C25 witness: a node's selectLiteral passed over a literal whose variable is
\* assigned and returned a later one, and the node forked on it.
C25_Witness ==
    \E n \in Nodes :
        /\ Selecting(n) /\ Branched(n)
        /\ \E p \in {Propagate(formula[n], assignment[n])} :
               /\ Abs(Flatten(p.formula)[1]) \in DOMAIN p.assignment
               /\ ~selectLiteral(p.formula, p.assignment).err

\* the children of a forking node
Children(n) == {Child1(n), Child2(n)}

\* the number of values ever sent on the channel made by node n
SentOn(n) == Len(delivered[Child1(n)]) + Len(delivered[Child2(n)])

\* C26 (SpecCh): a task sends at most one assignment to its caller's channel;
\* a channel is closed only when both tasks that send on it have returned; at
\* most ChanCap values are ever sent on one channel and the buffer always has
\* room for the sends still to come, so no send waits and none hits a closed
\* channel.
C26_ChannelProtocolSafety ==
    /\ \A n \in Tasks : Len(delivered[n]) <= 1
    /\ \A n \in DOMAIN ch :
           /\ SentOn(n) <= ChanCap
           /\ closed[n] => \A c \in Children(n) : pc[c] = "done"
           /\ Len(ch[n]) + Cardinality({ c \in Children(n) : pc[c] # "done" }) <= ChanCap
    /\ fault # "send on closed channel"

\* C26 witness: two values were sent on one channel, which was then closed.
C26_Witness ==
    \E n \in DOMAIN ch : SentOn(n) = 2 /\ closed[n]

\* C27 (SpecMu): no task that has returned holds the lock of the Result.
C27_LockDiscipline == \A n \in Tasks : pc[n] = "done" => n \notin readers

\* C28 (SpecCh): the boolean Solve returns is the boolean the sequential dpll
\* returns for the same formula and the empty assignment.
C28_RefinesSequential == Returned => (verdict = dpll(F, EmptyAssignment).result)

====
